---- MODULE Spec2Model ----
(***************************************************************************)
(* Model of src/src/server.py: the get_now_weather tool of the KMA         *)
(* ultra-short-term nowcast MCP server, with the pure helpers it calls.    *)
(*                                                                         *)
(* Python str values are modelled as sequences of characters.  A Hangul    *)
(* syllable is written as its romanised token ("seo","ul" for the two      *)
(* syllables of the city name Seoul), " " is the whitespace character.     *)
(* Python None is the record NoneVal; a dict is a function from its keys.  *)
(***************************************************************************)
EXTENDS Integers, Sequences, FiniteSets, TLC

\* ------------------------------------------------------------------------
\* str helpers
\* ------------------------------------------------------------------------

NoneVal == [py |-> "None"]

IsSpace(ch) == ch = " "

RECURSIVE lstrip(_)
lstrip(s) ==
    IF Len(s) > 0 /\ IsSpace(s[1]) THEN lstrip(Tail(s)) ELSE s

RECURSIVE rstrip(_)
rstrip(s) ==
    IF Len(s) > 0 /\ IsSpace(s[Len(s)]) THEN rstrip(SubSeq(s, 1, Len(s) - 1)) ELSE s

\* str.strip()
strip(s) == rstrip(lstrip(s))

\* str.endswith(suffix)
endswith(s, suffix) ==
    /\ Len(s) >= Len(suffix)
    /\ SubSeq(s, Len(s) - Len(suffix) + 1, Len(s)) = suffix

Digits == <<"0", "1", "2", "3", "4", "5", "6", "7", "8", "9">>

DigitChar(n) == Digits[n + 1]

\* f"{n:02d}"
fmt02d(n) ==
    IF n < 100 THEN <<DigitChar(n \div 10), DigitChar(n % 10)>>
    ELSE <<DigitChar(n \div 100), DigitChar((n \div 10) % 10), DigitChar(n % 10)>>

\* "%Y" of a four-digit year
fmt04d(n) ==
    <<DigitChar((n \div 1000) % 10), DigitChar((n \div 100) % 10),
      DigitChar((n \div 10) % 10), DigitChar(n % 10)>>

\* ------------------------------------------------------------------------
\* Reference tables
\* ------------------------------------------------------------------------

\* CITY_TO_GRID: Seoul, Busan, Daegu, Incheon, Gwangju, Daejeon, Ulsan, Sejong
CITY_TO_GRID ==
    (<<"seo", "ul">> :> [nx |-> 60, ny |-> 127]) @@
    (<<"bu", "san">> :> [nx |-> 98, ny |-> 76]) @@
    (<<"dae", "gu">> :> [nx |-> 89, ny |-> 90]) @@
    (<<"in", "cheon">> :> [nx |-> 55, ny |-> 124]) @@
    (<<"gwang", "ju">> :> [nx |-> 58, ny |-> 74]) @@
    (<<"dae", "jeon">> :> [nx |-> 67, ny |-> 100]) @@
    (<<"ul", "san">> :> [nx |-> 102, ny |-> 84]) @@
    (<<"se", "jong">> :> [nx |-> 66, ny |-> 103])

\* sorted(CITY_TO_GRID.keys()): Hangul code-point order
sorted_cities ==
    << <<"gwang", "ju">>, <<"dae", "gu">>, <<"dae", "jeon">>, <<"bu", "san">>,
       <<"seo", "ul">>, <<"se", "jong">>, <<"ul", "san">>, <<"in", "cheon">> >>

\* the administrative suffixes of normalize_city, in the order they are tried
SUFFIXES ==
    << <<"teuk", "byeol", "ja", "chi", "si">>,
       <<"teuk", "byeol", "si">>,
       <<"gwang", "yeok", "si">>,
       <<"si">> >>

\* ------------------------------------------------------------------------
\* Internal utilities
\* ------------------------------------------------------------------------

\* the for-loop of normalize_city from suffix k on
RECURSIVE strip_suffixes(_, _)
strip_suffixes(s, k) ==
    IF k > Len(SUFFIXES) THEN s
    ELSE strip_suffixes(
            IF endswith(s, SUFFIXES[k])
            THEN SubSeq(s, 1, Len(s) - Len(SUFFIXES[k]))
            ELSE s,
            k + 1)

normalize_city(city) ==
    IF Len(city) = 0 THEN <<>>
    ELSE strip(strip_suffixes(strip(city), 1))

\* A datetime in KST: [year, month, day, hour, minute] (KST has no DST;
\* seconds and microseconds play no part in any result).
IsLeap(y) == (y % 4 = 0 /\ y % 100 # 0) \/ y % 400 = 0

DaysInMonth(y, m) ==
    CASE m \in {1, 3, 5, 7, 8, 10, 12} -> 31
      [] m \in {4, 6, 9, 11} -> 30
      [] OTHER -> IF IsLeap(y) THEN 29 ELSE 28

\* fault: the hour before, taken modulo 24 on the same date
minus_one_hour_same_day(d) == [d EXCEPT !.hour = (@ + 23) % 24]

\* d - timedelta(hours=1)
minus_one_hour(d) ==
    IF d.hour > 0 THEN [d EXCEPT !.hour = @ - 1]
    ELSE IF d.day > 1 THEN [d EXCEPT !.day = @ - 1, !.hour = 23]
    ELSE IF d.month > 1
         THEN [d EXCEPT !.month = @ - 1,
                        !.day = DaysInMonth(d.year, d.month - 1),
                        !.hour = 23]
    ELSE [d EXCEPT !.year = @ - 1, !.month = 12, !.day = 31, !.hour = 23]

\* d.strftime("%Y%m%d")
as_base_date(d) == fmt04d(d.year) \o fmt02d(d.month) \o fmt02d(d.day)

\* f"{d.hour:02d}00"
as_base_time_hour(d) == fmt02d(d.hour) \o <<"0", "0">>

\* now.replace(minute=0, second=0, microsecond=0)
hour_floor_of(now) == [now EXCEPT !.minute = 0]

\* fault: the fallback repeats the primary window
candidates_of_same_twice(now) == <<[now EXCEPT !.minute = 0], [now EXCEPT !.minute = 0]>>

\* fault: a third candidate, two hours back
candidates_of_three(now) ==
    <<[now EXCEPT !.minute = 0],
      minus_one_hour([now EXCEPT !.minute = 0]),
      minus_one_hour(minus_one_hour([now EXCEPT !.minute = 0]))>>

\* candidates = [hour_floor, hour_floor - timedelta(hours=1)]
candidates_of(now) == <<hour_floor_of(now), minus_one_hour(hour_floor_of(now))>>

\* ------------------------------------------------------------------------
\* Python / JSON values
\*   str   [str |-> <<chars>>]      int   [int |-> n]
\*   float [float |-> <<m, e>>]  (the value m / 10^e, e minimal)
\*   None  NoneVal                  list  [list |-> <<elements>>]
\*   dict  a function from its keys (a record); {} is EmptyDict
\* ------------------------------------------------------------------------

Str(s) == [str |-> s]

PyInt(n) == [int |-> n]

EmptyDict == [k \in {} |-> NoneVal]

ScalarTags == {"str", "int", "float", "py", "list"}

\* isinstance(x, dict)
is_dict(x) == DOMAIN x \cap ScalarTags = {}

\* isinstance(x, list)
is_list(x) == "list" \in DOMAIN x

\* isinstance(x, int)
is_int(x) == "int" \in DOMAIN x

\* d.get(k, default) on a dict d
dict_get(d, k, default) == IF k \in DOMAIN d THEN d[k] ELSE default

IsDigit(ch) == \E n \in 1..10 : Digits[n] = ch

DigitVal(ch) == CHOOSE n \in 0..9 : Digits[n + 1] = ch

RECURSIVE digits_value(_)
digits_value(s) ==
    IF Len(s) = 0 THEN 0
    ELSE digits_value(SubSeq(s, 1, Len(s) - 1)) * 10 + DigitVal(s[Len(s)])

RECURSIVE pow10(_)
pow10(e) == IF e = 0 THEN 1 ELSE 10 * pow10(e - 1)

\* repr of a non-negative int
RECURSIVE nat_str(_)
nat_str(n) ==
    IF n < 10 THEN <<DigitChar(n)>> ELSE nat_str(n \div 10) \o <<DigitChar(n % 10)>>

int_str(n) == IF n < 0 THEN <<"-">> \o nat_str(0 - n) ELSE nat_str(n)

\* str(x) for the values that occur as resultCode / category / obsrValue
py_str(x) ==
    CASE "str" \in DOMAIN x -> x.str
      [] "int" \in DOMAIN x -> int_str(x.int)
      [] OTHER -> <<"N", "o", "n", "e">>

\* trailing zeros of the fraction carry no value: 3.0 = 3
RECURSIVE float_norm(_, _)
float_norm(m, e) ==
    IF e > 0 /\ m % 10 = 0 THEN float_norm(m \div 10, e - 1) ELSE <<m, e>>

\* float(s) on an unsigned literal: digits [. digits] | . digits
unsigned_float(body) ==
    LET dots == {i \in 1..Len(body) : body[i] = "."}
        p == IF dots = {} THEN Len(body) + 1 ELSE CHOOSE i \in dots : TRUE
        ip == SubSeq(body, 1, p - 1)
        fp == SubSeq(body, p + 1, Len(body))
    IN  IF /\ Cardinality(dots) <= 1
           /\ \A i \in 1..Len(ip) : IsDigit(ip[i])
           /\ \A i \in 1..Len(fp) : IsDigit(fp[i])
           /\ Len(ip) + Len(fp) > 0
        THEN [ok |-> TRUE, mag |-> float_norm(digits_value(ip \o fp), Len(fp))]
        ELSE [ok |-> FALSE, mag |-> <<0, 0>>]

\* float(s): [ok, neg, mag]; ok = FALSE is ValueError
parse_float(s) ==
    LET signed == Len(s) > 0 /\ s[1] \in {"-", "+"}
        u == unsigned_float(IF signed THEN Tail(s) ELSE s)
    IN  [ok |-> u.ok, neg |-> signed /\ s[1] = "-", mag |-> u.mag]

\* int(float(s)): truncation toward zero
float_to_int(f) ==
    LET q == f.mag[1] \div pow10(f.mag[2])
    IN  IF f.neg THEN 0 - q ELSE q

float_value(f) ==
    [float |-> <<IF f.neg THEN 0 - f.mag[1] ELSE f.mag[1], f.mag[2]>>]

\* fault: int(s) in place of int(float(s))
safe_cast_int_direct(meta_cast, raw) ==
    IF raw = NoneVal THEN NoneVal
    ELSE LET s == strip(py_str(raw))
         IN  IF Len(s) = 0 THEN NoneVal
             ELSE LET f == parse_float(s)
                  IN  IF ~f.ok THEN raw
                      ELSE IF meta_cast = "int"
                           THEN IF \E i \in 1..Len(s) : s[i] = "." THEN raw
                                ELSE PyInt(float_to_int(f))
                      ELSE float_value(f)

\* safe_cast(meta_cast, raw); meta_cast is "int" or "float"
safe_cast(meta_cast, raw) ==
    IF raw = NoneVal THEN NoneVal
    ELSE LET s == strip(py_str(raw))
         IN  IF Len(s) = 0 THEN NoneVal
             ELSE LET f == parse_float(s)
                  IN  IF ~f.ok THEN raw
                      ELSE IF meta_cast = "int" THEN PyInt(float_to_int(f))
                      ELSE float_value(f)

\* WIND_DIR_16_KO: N, NNE, NE, ENE, E, ESE, SE, SSE, S, SSW, SW, WSW, W, WNW, NW, NNW
WIND_DIR_16_KO ==
    << <<"buk">>, <<"buk", "buk", "dong">>, <<"buk", "dong">>, <<"dong", "buk", "dong">>,
       <<"dong">>, <<"dong", "nam", "dong">>, <<"nam", "dong">>, <<"nam", "nam", "dong">>,
       <<"nam">>, <<"nam", "nam", "seo">>, <<"nam", "seo">>, <<"seo", "nam", "seo">>,
       <<"seo">>, <<"seo", "buk", "seo">>, <<"buk", "seo">>, <<"buk", "buk", "seo">> >>

\* fault: the half-sector offset is left out
wind_index_no_offset(centi) == ((centi % 36000) \div 2250) % 16

\* int(((deg % 360) + 11.25) // 22.5) % 16, deg given in hundredths of a degree
wind_index(centi) == (((centi % 36000) + 1125) \div 2250) % 16

\* hundredths of a degree of an int or a float with at most two decimals
centi_degrees(deg) ==
    IF is_int(deg) THEN deg.int * 100
    ELSE deg.float[1] * pow10(2 - deg.float[2])

wind_deg_to_16dir_ko(deg) ==
    IF deg = NoneVal THEN NoneVal
    ELSE Str(WIND_DIR_16_KO[wind_index(centi_degrees(deg)) + 1])

\* PTY_MAP_ULTRA
PTY_MAP_ULTRA ==
    (0 :> <<"eops", "eum">>) @@
    (1 :> <<"bi">>) @@
    (2 :> <<"bi", "/", "nun">>) @@
    (3 :> <<"nun">>) @@
    (4 :> <<"so", "na", "gi">>) @@
    (5 :> <<"bit", "bang", "ul">>) @@
    (6 :> <<"bit", "bang", "ul", "/", "nun", "nal", "lim">>) @@
    (7 :> <<"nun", "nal", "lim">>)

\* "unknown"
AL_SU_EOPSEUM == <<"al", " ", "su", " ", "eops", "eum">>

\* the five group keys: temperature, humidity, precipitation, wind, other
GROUPS == {"gion", "seupdo", "gangsu", "baram", "gita"}

T1H == <<"T", "1", "H">>
REH == <<"R", "E", "H">>
RN1 == <<"R", "N", "1">>
PTY == <<"P", "T", "Y">>
VEC == <<"V", "E", "C">>
WSD == <<"W", "S", "D">>
UUU == <<"U", "U", "U">>
VVV == <<"V", "V", "V">>

\* CATEGORY_META
CATEGORY_META ==
    (T1H :> [ko |-> <<"gi", "on">>, unit |-> <<"C">>, group |-> "gion", cast |-> "float"]) @@
    (REH :> [ko |-> <<"seup", "do">>, unit |-> <<"%">>, group |-> "seupdo", cast |-> "int"]) @@
    (RN1 :> [ko |-> <<"1", "si", "gan", " ", "gang", "su", "ryang">>, unit |-> <<"m", "m">>,
             group |-> "gangsu", cast |-> "float"]) @@
    (PTY :> [ko |-> <<"gang", "su", "hyeong", "tae">>, unit |-> <<"ko", "deu">>,
             group |-> "gangsu", cast |-> "int"]) @@
    (VEC :> [ko |-> <<"pung", "hyang">>, unit |-> <<"d", "e", "g">>,
             group |-> "baram", cast |-> "int"]) @@
    (WSD :> [ko |-> <<"pung", "sok">>, unit |-> <<"m", "/", "s">>,
             group |-> "baram", cast |-> "float"]) @@
    (UUU :> [ko |-> <<"dong", "seo", "ba", "ram", "seong", "bun">>, unit |-> <<"m", "/", "s">>,
             group |-> "baram", cast |-> "float"]) @@
    (VVV :> [ko |-> <<"nam", "buk", "ba", "ram", "seong", "bun">>, unit |-> <<"m", "/", "s">>,
             group |-> "baram", cast |-> "float"])

\* fault: the branch for a single item (a dict) is missing
extract_items_list_only(api_json) ==
    IF ~is_dict(api_json) THEN <<>>
    ELSE LET response == dict_get(api_json, "response", EmptyDict)
         IN  IF ~is_dict(response) THEN <<>>
             ELSE LET body == dict_get(response, "body", EmptyDict)
                  IN  IF ~is_dict(body) THEN <<>>
                      ELSE LET items == dict_get(body, "items", EmptyDict)
                           IN  IF ~is_dict(items) THEN <<>>
                               ELSE LET item == dict_get(items, "item", [list |-> <<>>])
                                    IN  IF is_list(item) THEN item.list ELSE <<>>

\* extract_items: any AttributeError inside the try yields []
extract_items(api_json) ==
    IF ~is_dict(api_json) THEN <<>>
    ELSE LET response == dict_get(api_json, "response", EmptyDict)
         IN  IF ~is_dict(response) THEN <<>>
             ELSE LET body == dict_get(response, "body", EmptyDict)
                  IN  IF ~is_dict(body) THEN <<>>
                      ELSE LET items == dict_get(body, "items", EmptyDict)
                           IN  IF ~is_dict(items) THEN <<>>
                               ELSE LET item == dict_get(items, "item", [list |-> <<>>])
                                    IN  IF is_list(item) THEN item.list
                                        ELSE IF is_dict(item) THEN <<item>>
                                        ELSE <<>>

\* d[k] = v
dict_put(d, k, v) == [x \in DOMAIN d \cup {k} |-> IF x = k THEN v ELSE d[x]]

\* the entry normalize_observations builds for one item (a dict)
observation_entry(it) ==
    LET code == strip(py_str(dict_get(it, "category", Str(<<>>))))
        raw_val == dict_get(it, "obsrValue", NoneVal)
        known == code \in DOMAIN CATEGORY_META
        val == IF known THEN safe_cast(CATEGORY_META[code].cast, raw_val) ELSE raw_val
        unit == IF known THEN Str(CATEGORY_META[code].unit) ELSE NoneVal
        as_int == IF is_int(val) THEN val ELSE safe_cast("int", raw_val)
    IN  CASE code = PTY ->
                [kodeu |-> code, gap |-> val, danwi |-> unit,
                 seolmyeong |->
                    IF is_int(as_int)
                    THEN IF as_int.int \in DOMAIN PTY_MAP_ULTRA
                         THEN PTY_MAP_ULTRA[as_int.int]
                         ELSE AL_SU_EOPSEUM \o <<"(">> \o int_str(as_int.int) \o <<")">>
                    ELSE AL_SU_EOPSEUM]
          [] code = VEC /\ is_int(as_int) ->
                [kodeu |-> code, gap |-> val, danwi |-> unit,
                 bangwi16 |-> wind_deg_to_16dir_ko(as_int)]
          [] OTHER -> [kodeu |-> code, gap |-> val, danwi |-> unit]

\* the loop body of normalize_observations: grouped after item it
observe(grouped, it) ==
    LET code == strip(py_str(dict_get(it, "category", Str(<<>>))))
        known == code \in DOMAIN CATEGORY_META
        name_ko == IF known THEN CATEGORY_META[code].ko
                   ELSE IF Len(code) > 0 THEN code
                   ELSE <<"U", "N", "K", "N", "O", "W", "N">>
        group0 == IF known THEN CATEGORY_META[code].group ELSE "gita"
        group == IF group0 \notin DOMAIN grouped THEN "gita" ELSE group0
        key == IF name_ko \in DOMAIN grouped[group]
               THEN name_ko \o <<"(">> \o code \o <<")">>
               ELSE name_ko
    IN  [grouped EXCEPT ![group] = dict_put(@, key, observation_entry(it))]

RECURSIVE observe_all(_, _, _)
observe_all(grouped, items, i) ==
    IF i > Len(items) THEN grouped
    ELSE observe_all(observe(grouped, items[i]), items, i + 1)

\* it.get(...) raises AttributeError on an element that is not a dict
normalize_raises(items) == \E i \in 1..Len(items) : ~is_dict(items[i])

normalize_observations(items) ==
    observe_all([g \in GROUPS |-> EmptyDict], items, 1)

\* ------------------------------------------------------------------------
\* Bounds and the inputs of the model
\* ------------------------------------------------------------------------

\* longest item list an upstream response carries
MaxItems == 2

SUCCESS_CODE == <<"0", "0">>

SEOUL == <<"seo", "ul">>

\* the free-form region names get_now_weather is called with
CityInputs ==
    { SEOUL,
      <<" ">> \o SEOUL \o <<"si", " ">>,
      <<"se", "jong">> \o SUFFIXES[1],
      <<"bu", "san">> \o SUFFIXES[3],
      SEOUL \o <<"si">> \o SUFFIXES[2],
      SEOUL \o SUFFIXES[2] \o <<"si">>,
      <<"je", "ju">>,
      <<"je", "ju", "si">>,
      <<"si">>,
      <<>> }

\* values of os.getenv("KMA_SERVICE_KEY")
EnvValues == {NoneVal, Str(<<>>), Str(<<" ">>), Str(<<" ", "K">>)}

\* the dates the clock is read on: the day after a leap day, a new year's day
Dates == {[year |-> 2024, month |-> 3, day |-> 1], [year |-> 2025, month |-> 1, day |-> 1]}

ClocksOf(dates, hours, minutes) ==
    { [year |-> d.year, month |-> d.month, day |-> d.day, hour |-> h, minute |-> m] :
        d \in dates, h \in hours, m \in minutes }

\* now_kst(): the values datetime.now(tz=KST) takes
Clocks == ClocksOf({[year |-> 2024, month |-> 3, day |-> 1]}, {0, 1, 13, 23}, {15})

\* every hour of the day, on the hour and past it
AllClocks == ClocksOf(Dates, 0..23, {0, 15, 40})

Item(code, value) == [category |-> Str(code), obsrValue |-> Str(value)]

\* elements of an item list: two observations and a JSON string in place of one
ItemPool ==
    { Item(T1H, <<"2", "1", ".", "5">>), Item(REH, <<"3", ".", "0">>), Str(<<"x">>) }

ItemLists == UNION { [1..n -> ItemPool] : n \in 0..MaxItems }

\* values of the "item" field: null, a string, one item, a list
ItemFields ==
    {NoneVal, Str(<<"x">>), Item(T1H, <<"2", "1", ".", "5">>)}
        \cup { [list |-> l] : l \in ItemLists }

Headers ==
    { [resultCode |-> Str(<<"0", "0">>), resultMsg |-> Str(<<"NORMAL_SERVICE">>)],
      [resultCode |-> Str(<<"0", "0", " ">>), resultMsg |-> Str(<<" ", "NORMAL_SERVICE">>)],
      [resultCode |-> Str(<<"0", "3">>), resultMsg |-> Str(<<"NO_DATA">>)] }

\* JSON bodies of a 200 response
JsonBodies ==
    { [list |-> <<>>], EmptyDict, [response |-> NoneVal],
      [response |-> [header |-> NoneVal]] }
        \cup { [response |-> [header |-> h]] : h \in Headers }
        \cup { [response |-> [header |-> h, body |-> NoneVal]] : h \in Headers }
        \cup { [response |-> [header |-> h, body |-> [items |-> EmptyDict]]] : h \in Headers }
        \cup { [response |-> [header |-> h, body |-> [items |-> [item |-> x]]]] :
                 h \in Headers, x \in ItemFields }

\* what one GET can end in: a transport failure, or a status with a body
WireError(e) == [error |-> e, status |-> 0, is_json |-> FALSE, json |-> NoneVal]

WireStatus(st) == [error |-> "", status |-> st, is_json |-> FALSE, json |-> NoneVal]

WireJson(j) == [error |-> "", status |-> 200, is_json |-> TRUE, json |-> j]

WireResponses ==
    { WireError(e) : e \in {"ConnectError", "ReadTimeout"} }
        \cup { WireStatus(st) : st \in {200, 404, 500} }
        \cup { WireJson(j) : j \in JsonBodies }

\* one answer of each kind, for the runs that vary the clock
FewWireResponses ==
    { WireError("ReadTimeout"), WireStatus(500), WireJson([response |-> NoneVal]) }
        \cup { WireJson([response |->
                    [header |-> [resultCode |-> Str(SUCCESS_CODE),
                                 resultMsg |-> Str(<<"NORMAL_SERVICE">>)],
                     body |-> [items |-> [item |-> [list |-> l]]]]]) :
                 l \in {<<>>, <<Item(T1H, <<"2", "1", ".", "5">>)>>} }

FewCityInputs == {SEOUL, <<"bu", "san">> \o SUFFIXES[3], <<"je", "ju">>}

\* ------------------------------------------------------------------------
\* Exceptions
\* ------------------------------------------------------------------------

\* the classes an exception is an instance of (httpx and builtin hierarchy)
ExcClasses(exc) ==
    CASE exc = "HTTPStatusError" -> {"HTTPStatusError", "HTTPError", "Exception"}
      [] exc \in {"ConnectError", "ReadTimeout"} ->
            {exc, "TransportError", "RequestError", "HTTPError", "Exception"}
      [] exc = "JSONDecodeError" -> {"JSONDecodeError", "ValueError", "Exception"}
      [] OTHER -> {exc, "Exception"}

\* fault: the loop body without its catch-all clause
LOOP_EXCEPT_httpx_only == <<"HTTPStatusError", "RequestError">>

\* the except clauses of the loop body, in order
LOOP_EXCEPT == <<"HTTPStatusError", "RequestError", "Exception">>

\* the clause that catches exc: the first one exc is an instance of;
\* "" when none does and exc leaves get_now_weather
except_clause(exc) ==
    LET hits == {k \in 1..Len(LOOP_EXCEPT) : LOOP_EXCEPT[k] \in ExcClasses(exc)}
    IN  IF hits = {} THEN ""
        ELSE LOOP_EXCEPT[CHOOSE k \in hits : \A j \in hits : k <= j]

\* f"<clause>: {e}"
caught_message(exc) == [text |-> except_clause(exc), exc |-> exc]

\* the "valid response but the data is empty" message with its two arguments
empty_data_message(result_code, count) ==
    [text |-> "empty data", resultCode |-> result_code, count |-> count]

\* "unknown error"
UNKNOWN_ERROR == [text |-> "unknown error"]

\* the RuntimeError message of _need_env
env_empty_message(name) == [text |-> "env var is empty", name |-> name]

\* fault: the value is not stripped before the emptiness test
_need_env_no_strip(value) ==
    LET v == IF value = NoneVal THEN <<>> ELSE value.str
    IN  IF Len(v) = 0 THEN [exc |-> "RuntimeError", value |-> <<>>]
        ELSE [exc |-> "", value |-> v]

\* _need_env: [exc, value]; exc = "" when v is returned
_need_env(value) ==
    LET v == strip(IF value = NoneVal THEN <<>> ELSE value.str)
    IN  IF Len(v) = 0 THEN [exc |-> "RuntimeError", value |-> <<>>]
        ELSE [exc |-> "", value |-> v]

\* the query parameters of fetch_ultra_srt_ncst
request_params(key, date, time, nx, ny) ==
    [serviceKey |-> key, numOfRows |-> <<"1", "0", "0", "0">>, pageNo |-> <<"1">>,
     dataType |-> <<"J", "S", "O", "N">>, base_date |-> date, base_time |-> time,
     nx |-> int_str(nx), ny |-> int_str(ny)]

\* fetch_ultra_srt_ncst on the answer w of the GET: [exc, json]; exc = "" when
\* r.json() is returned
fetch_ultra_srt_ncst(w) ==
    IF w.error # "" THEN [exc |-> w.error, json |-> NoneVal]
    ELSE IF w.status >= 400 /\ w.status <= 599
         THEN [exc |-> "HTTPStatusError", json |-> NoneVal]
    ELSE IF ~w.is_json THEN [exc |-> "JSONDecodeError", json |-> NoneVal]
    ELSE [exc |-> "", json |-> w.json]

\* api_json.get("response", {}).get("header", {}) and the two header fields:
\* [exc, resultCode, resultMsg]; .get on a value that is no dict is AttributeError
parse_header(api_json) ==
    LET bad == [exc |-> "AttributeError", resultCode |-> <<>>, resultMsg |-> <<>>]
    IN  IF ~is_dict(api_json) THEN bad
        ELSE LET response == dict_get(api_json, "response", EmptyDict)
             IN  IF ~is_dict(response) THEN bad
                 ELSE LET header == dict_get(response, "header", EmptyDict)
                      IN  IF ~is_dict(header) THEN bad
                          ELSE [exc |-> "",
                                resultCode |->
                                    strip(py_str(dict_get(header, "resultCode", Str(<<>>)))),
                                resultMsg |->
                                    strip(py_str(dict_get(header, "resultMsg", Str(<<>>))))]

\* fault: the result code is not tested
accepted_any_code(result_code, items) == Len(items) > 0

\* if result_code == "00" and items
accepted(result_code, items) == result_code = SUCCESS_CODE /\ Len(items) > 0

attempt_record(date, time, header, items) ==
    [base_date |-> date, base_time |-> time, resultCode |-> header.resultCode,
     resultMsg |-> header.resultMsg, count |-> Len(items)]

\* fault: the record is appended only for a response that carries items
trail_after_nonempty(trail, r, h, rec) ==
    IF r.exc = "" /\ h.exc = "" /\ rec.count > 0 THEN Append(trail, rec) ELSE trail

\* attempts after the iteration: attempts.append(...) is reached when neither the
\* fetch nor the header lines raised
trail_after(trail, r, h, rec) ==
    IF r.exc = "" /\ h.exc = "" THEN Append(trail, rec) ELSE trail

\* fault: the first error is kept
next_error_keep_first(old, new) == IF old = NoneVal THEN new ELSE old

\* last_error = <message>: an assignment, whatever last_error held
next_error(old, new) == new

\* [as_base_time_hour(c) for c in candidates if as_base_date(c) == base_date]
RECURSIVE candidate_times(_, _)
candidate_times(cands, date) ==
    IF Len(cands) = 0 THEN <<>>
    ELSE (IF as_base_date(Head(cands)) = date
          THEN <<as_base_time_hour(Head(cands))>> ELSE <<>>)
         \o candidate_times(Tail(cands), date)

\* ------------------------------------------------------------------------
\* State
\* ------------------------------------------------------------------------

VARIABLES
    environ,        \* os.environ["KMA_SERVICE_KEY"]
    pc,             \* where get_now_weather stands
    city,           \* its argument
    service_key, city_norm, grid, now, base_date, candidates,
    idx,            \* position of the for loop in candidates
    base_time, attempts, last_error,
    result,         \* the returned dict
    escaped,        \* the exception that left get_now_weather, "" if none
    calls,          \* the requests sent in this invocation
    seen,           \* the answer to each, by kind
    prev_env_fail,  \* the previous invocation ended in the missing-credential failure
    prev_trail,     \* the number of attempt records the previous invocation left
    probe           \* a helper function called on its own: [fn, arg] and, once
                    \* it has returned, [fn, arg, out]

vars ==
    <<environ, pc, city, service_key, city_norm, grid, now, base_date, candidates,
      idx, base_time, attempts, last_error, result, escaped, calls, seen,
      prev_env_fail, prev_trail, probe>>

\* the kind of an answer, read off the answer alone
wire_class(w) ==
    LET r == fetch_ultra_srt_ncst(w)
        h == parse_header(r.json)
    IN  CASE r.exc \in {"ConnectError", "ReadTimeout"} -> "transport"
          [] r.exc = "HTTPStatusError" -> "http"
          [] r.exc # "" -> "not json"
          [] h.exc # "" -> "malformed"
          [] Len(extract_items(r.json)) = 0 -> "empty"
          [] h.resultCode # SUCCESS_CODE -> "non-success"
          [] OTHER -> "usable"

\* what the loop body reads off an answer: the exception of the fetch or of the
\* header lines ("" if none), the header fields and the number of extracted items
answer_digest(w) ==
    LET r == fetch_ultra_srt_ncst(w)
        h == parse_header(r.json)
    IN  [exc |-> IF r.exc # "" THEN r.exc ELSE h.exc,
         resultCode |-> h.resultCode, resultMsg |-> h.resultMsg,
         count |-> Len(extract_items(r.json))]

\* no helper is being called on its own
NoProbe == [fn |-> "none"]

Init ==
    /\ environ \in EnvValues
    /\ pc = "idle"
    /\ city = <<>>
    /\ service_key = <<>>
    /\ city_norm = <<>>
    /\ grid = [nx |-> 0, ny |-> 0]
    /\ now = NoneVal
    /\ base_date = <<>>
    /\ candidates = <<>>
    /\ idx = 0
    /\ base_time = <<>>
    /\ attempts = <<>>
    /\ last_error = NoneVal
    /\ result = NoneVal
    /\ escaped = ""
    /\ calls = <<>>
    /\ seen = <<>>
    /\ prev_env_fail = FALSE
    /\ prev_trail = 0
    /\ probe = NoProbe

\* ------------------------------------------------------------------------
\* get_now_weather, step by step
\* ------------------------------------------------------------------------

ENV_NAME == "KMA_SERVICE_KEY"

\* return {"ok": False, "error": str(e)}
env_failure == [ok |-> FALSE, error |-> env_empty_message(ENV_NAME)]

\* fault: the normalized form is reported as the input
unsupported_failure_norm_as_input(input, norm) ==
    [ok |-> FALSE, error |-> [text |-> "unsupported region"], input |-> norm,
     normalized |-> norm, supported_cities |-> sorted_cities]

unsupported_failure(input, norm) ==
    [ok |-> FALSE, error |-> [text |-> "unsupported region"], input |-> input,
     normalized |-> norm, supported_cities |-> sorted_cities]

\* jiyeok = region, gyeokja = grid, balpyo = announcement, silhwang = observations
success_result(norm, g, date, time, items, trail) ==
    [ok |-> TRUE, jiyeok |-> norm, gyeokja |-> g,
     balpyo |-> [base_date |-> date, base_time |-> time],
     silhwang |-> normalize_observations(items), attempts |-> trail]

exhausted_failure(err, norm, g, date, cands, trail) ==
    [ok |-> FALSE, error |-> IF err = NoneVal THEN UNKNOWN_ERROR ELSE err,
     jiyeok |-> norm, gyeokja |-> g,
     balpyo |-> [base_date |-> date, candidate_times |-> candidate_times(cands, date)],
     attempts |-> trail]

\* the tool is called with city c
Invoke(c) ==
    /\ pc = "idle"
    /\ pc' = "need_env"
    /\ city' = c
    /\ UNCHANGED <<environ, service_key, city_norm, grid, now, base_date, candidates,
                   idx, base_time, attempts, last_error, result, escaped,
                   calls, seen, prev_env_fail, prev_trail, probe>>

\* try: service_key = _need_env(...) except Exception: return failure
CheckEnv ==
    /\ pc = "need_env"
    /\ LET r == _need_env(environ)
       IN  IF r.exc = ""
           THEN /\ service_key' = r.value
                /\ pc' = "resolve"
                /\ UNCHANGED <<result, escaped>>
           ELSE IF "Exception" \in ExcClasses(r.exc)
           THEN /\ result' = env_failure
                /\ pc' = "done"
                /\ UNCHANGED <<service_key, escaped>>
           ELSE /\ escaped' = r.exc
                /\ pc' = "raised"
                /\ UNCHANGED <<service_key, result>>
    /\ UNCHANGED <<environ, city, city_norm, grid, now, base_date, candidates,
                   idx, base_time, attempts, last_error, calls, seen,
                   prev_env_fail, prev_trail, probe>>

\* fault: the trail is a list shared by the invocations and never cleared, so
\* the records of the previous invocation are still in it
ResolveRegion_shared_trail(t) ==
    /\ pc = "resolve"
    /\ city_norm' = normalize_city(city)
    /\ IF city_norm' \notin DOMAIN CITY_TO_GRID
       THEN /\ result' = unsupported_failure(city, city_norm')
            /\ pc' = "done"
            /\ UNCHANGED <<grid, now, base_date, candidates, idx, attempts, last_error>>
       ELSE /\ grid' = CITY_TO_GRID[city_norm']
            /\ now' = t
            /\ base_date' = as_base_date(t)
            /\ candidates' = candidates_of(t)
            /\ attempts' = [k \in 1..prev_trail |->
                               [base_date |-> <<>>, base_time |-> <<>>, resultCode |-> <<>>,
                                resultMsg |-> <<>>, count |-> 0]]
            /\ last_error' = NoneVal
            /\ idx' = 1
            /\ pc' = "loop"
            /\ UNCHANGED result
    /\ UNCHANGED <<environ, city, service_key, base_time, escaped, calls,
                   seen, prev_env_fail, prev_trail, probe>>

\* normalize, look the region up, read the clock t and plan the windows
ResolveRegion(t) ==
    /\ pc = "resolve"
    /\ city_norm' = normalize_city(city)
    /\ IF city_norm' \notin DOMAIN CITY_TO_GRID
       THEN /\ result' = unsupported_failure(city, city_norm')
            /\ pc' = "done"
            /\ UNCHANGED <<grid, now, base_date, candidates, idx, attempts, last_error>>
       ELSE /\ grid' = CITY_TO_GRID[city_norm']
            /\ now' = t
            /\ base_date' = as_base_date(t)
            /\ candidates' = candidates_of(t)
            /\ attempts' = <<>>
            /\ last_error' = NoneVal
            /\ idx' = 1
            /\ pc' = "loop"
            /\ UNCHANGED result
    /\ UNCHANGED <<environ, city, service_key, base_time, escaped, calls,
                   seen, prev_env_fail, prev_trail, probe>>

\* if as_base_date(cand_dt) != base_date: continue
SkipWindow ==
    /\ pc = "loop"
    /\ idx <= Len(candidates)
    /\ as_base_date(candidates[idx]) # base_date
    /\ idx' = idx + 1
    /\ UNCHANGED <<environ, pc, city, service_key, city_norm, grid, now, base_date,
                   candidates, base_time, attempts, last_error, result,
                   escaped, calls, seen, prev_env_fail, prev_trail, probe>>

\* base_time = ...; client.get(...) is sent
SendRequest ==
    /\ pc = "loop"
    /\ idx <= Len(candidates)
    /\ as_base_date(candidates[idx]) = base_date
    /\ base_time' = as_base_time_hour(candidates[idx])
    /\ calls' = Append(calls,
                       request_params(service_key, base_date, base_time', grid.nx, grid.ny))
    /\ pc' = "await"
    /\ UNCHANGED <<environ, city, service_key, city_norm, grid, now, base_date,
                   candidates, idx, attempts, last_error, result, escaped,
                   seen, prev_env_fail, prev_trail, probe>>

\* the GET ends in w: the rest of fetch_ultra_srt_ncst and of the loop body
Classify(w) ==
    /\ pc = "await"
    /\ LET r == fetch_ultra_srt_ncst(w)
           h == parse_header(r.json)
           items == extract_items(r.json)
           accept == r.exc = "" /\ h.exc = "" /\ accepted(h.resultCode, items)
           exc == IF r.exc # "" THEN r.exc
                  ELSE IF h.exc # "" THEN h.exc
                  ELSE IF accept /\ normalize_raises(items) THEN "AttributeError"
                  ELSE ""
       IN  /\ attempts' = trail_after(attempts, r, h,
                                      attempt_record(base_date, base_time, h, items))
           /\ seen' = Append(seen, [base_time |-> base_time, class |-> wire_class(w),
                                    items |-> IF wire_class(w) = "usable"
                                              THEN extract_items(w.json) ELSE <<>>,
                                    got |-> answer_digest(w)])
           /\ IF exc = "" /\ accept
              THEN /\ result' = success_result(city_norm, grid, base_date, base_time,
                                               items, attempts')
                   /\ pc' = "done"
                   /\ UNCHANGED <<last_error, idx, escaped>>
              ELSE IF exc = ""
              THEN /\ last_error' = next_error(last_error,
                                               empty_data_message(h.resultCode, Len(items)))
                   /\ idx' = idx + 1
                   /\ pc' = "loop"
                   /\ UNCHANGED <<result, escaped>>
              ELSE IF except_clause(exc) # ""
              THEN /\ last_error' = next_error(last_error, caught_message(exc))
                   /\ idx' = idx + 1
                   /\ pc' = "loop"
                   /\ UNCHANGED <<result, escaped>>
              ELSE /\ escaped' = exc
                   /\ pc' = "raised"
                   /\ UNCHANGED <<last_error, idx, result>>
    /\ UNCHANGED <<environ, city, service_key, city_norm, grid, now, base_date,
                   candidates, base_time, calls, prev_env_fail, prev_trail, probe>>

\* the loop is over: return the failure
Exhausted ==
    /\ pc = "loop"
    /\ idx > Len(candidates)
    /\ result' = exhausted_failure(last_error, city_norm, grid, base_date, candidates,
                                   attempts)
    /\ pc' = "done"
    /\ UNCHANGED <<environ, city, service_key, city_norm, grid, now, base_date,
                   candidates, idx, base_time, attempts, last_error, escaped,
                   calls, seen, prev_env_fail, prev_trail, probe>>

\* the result is handed to the caller; the frame is gone
Return ==
    /\ pc = "done"
    /\ pc' = "idle"
    /\ prev_env_fail' = (result = env_failure)
    /\ prev_trail' = Len(attempts)
    /\ city' = <<>>
    /\ service_key' = <<>>
    /\ city_norm' = <<>>
    /\ grid' = [nx |-> 0, ny |-> 0]
    /\ now' = NoneVal
    /\ base_date' = <<>>
    /\ candidates' = <<>>
    /\ idx' = 0
    /\ base_time' = <<>>
    /\ attempts' = <<>>
    /\ last_error' = NoneVal
    /\ result' = NoneVal
    /\ calls' = <<>>
    /\ seen' = <<>>
    /\ UNCHANGED <<environ, escaped, probe>>

\* the hosting environment sets or unsets the credential between calls
SetEnv(v) ==
    /\ pc = "idle"
    /\ v # environ
    /\ environ' = v
    /\ UNCHANGED <<pc, city, service_key, city_norm, grid, now, base_date, candidates,
                   idx, base_time, attempts, last_error, result, escaped,
                   calls, seen, prev_env_fail, prev_trail, probe>>

\* the steps of the handler, reading the clock from clocks and answers from wires
StepOver(clocks, wires) ==
    \/ CheckEnv
    \/ \E t \in clocks : ResolveRegion(t)
    \/ SkipWindow
    \/ SendRequest
    \/ \E w \in wires : Classify(w)
    \/ Exhausted
    \/ Return

Outside(cities) ==
    \/ \E c \in cities : Invoke(c)
    \/ \E v \in EnvValues : SetEnv(v)

Step == StepOver(Clocks, WireResponses)

Next == Outside(CityInputs) \/ Step

Spec == Init /\ [][Next]_vars

\* the handler runs to its return once called; calls and environment changes
\* come from outside and need not happen
FairSpec == Spec /\ WF_vars(Step)

\* every hour of two days, with one upstream answer of each kind
PlanNext == Outside(FewCityInputs) \/ StepOver(AllClocks, FewWireResponses)

PlanSpec == Init /\ [][PlanNext]_vars

\* ------------------------------------------------------------------------
\* The helpers called on their own
\* ------------------------------------------------------------------------

\* longest item list normalize_observations is called with
MaxObs == 3

PADS == {<<>>, <<" ">>}

\* arguments of normalize_city: a supported or unsupported name or nothing,
\* followed by no suffix, one suffix or two, with and without blanks around
CityProbes ==
    { pre \o name \o suffix \o post :
        pre \in PADS, post \in PADS,
        name \in DOMAIN CITY_TO_GRID \cup {<<"je", "ju">>, <<>>},
        suffix \in {<<>>} \cup {SUFFIXES[k] : k \in 1..Len(SUFFIXES)}
                     \cup {<<"si">> \o SUFFIXES[2], <<" ", "si">>} }

\* arguments of wind_deg_to_16dir_ko: whole degrees from below -360 to above
\* 720, and the sector boundaries (odd multiples of 11.25) with their
\* neighbours a hundredth below, as floats
DegreeProbes ==
    { PyInt(d) : d \in -380..740 }
        \cup { [float |-> <<(2 * k + 1) * 1125 - below, 2>>] :
                 k \in -17..33, below \in {0, 1} }

\* the obsrValue strings safe_cast is called with, None and an int
RawProbes ==
    { Str(s) : s \in { <<"3", ".", "0">>, <<"3">>, <<"2", "1", ".", "5">>,
                       <<"-", "2", ".", "7">>, <<" ", "7", " ">>, <<".", "5">>,
                       <<"+", "4">>, <<"a", "b", "c">>, <<"3", "x">>,
                       <<"1", ".", "2", ".", "3">>, <<"-">>, <<".">>,
                       <<>>, <<" ">> } }
        \cup {NoneVal, PyInt(5)}

CastProbes == { [meta_cast |-> k, raw |-> r] : k \in {"int", "float"}, r \in RawProbes }

\* the items normalize_observations is called with: known codes with a
\* repetition, an unknown code, no code, a code with blanks around
ObsPool ==
    { Item(T1H, <<"2", "1", ".", "5">>), Item(T1H, <<"2", "2">>),
      Item(PTY, <<"9">>), Item(VEC, <<"3", "4", "8">>),
      Item(<<"X">>, <<"1">>), Item(<<>>, <<"a">>),
      [category |-> Str(<<" ", "R", "E", "H">>)] }

ObsProbes == UNION { [1..n -> ObsPool] : n \in 0..MaxObs }

\* every variable of get_now_weather as Init leaves it
NotInvoked ==
    /\ environ = NoneVal
    /\ pc = "idle"
    /\ city = <<>>
    /\ service_key = <<>>
    /\ city_norm = <<>>
    /\ grid = [nx |-> 0, ny |-> 0]
    /\ now = NoneVal
    /\ base_date = <<>>
    /\ candidates = <<>>
    /\ idx = 0
    /\ base_time = <<>>
    /\ attempts = <<>>
    /\ last_error = NoneVal
    /\ result = NoneVal
    /\ escaped = ""
    /\ calls = <<>>
    /\ seen = <<>>
    /\ prev_env_fail = FALSE
    /\ prev_trail = 0

HelperInit ==
    /\ NotInvoked
    /\ \/ \E c \in CityProbes : probe = [fn |-> "normalize_city", arg |-> c]
       \/ \E d \in DegreeProbes : probe = [fn |-> "wind_deg_to_16dir_ko", arg |-> d]
       \/ \E a \in CastProbes : probe = [fn |-> "safe_cast", arg |-> a]
       \/ \E j \in JsonBodies : probe = [fn |-> "extract_items", arg |-> j]
       \/ \E l \in ObsProbes : probe = [fn |-> "normalize_observations", arg |-> l]

\* the helper fn is entered with its argument and has not returned
Called(fn) == probe.fn = fn /\ "out" \notin DOMAIN probe

\* the helper returns out
Returns(out) == probe' = [fn |-> probe.fn, arg |-> probe.arg, out |-> out]

HandlerIdle ==
    UNCHANGED <<environ, pc, city, service_key, city_norm, grid, now, base_date,
                candidates, idx, base_time, attempts, last_error, result, escaped,
                calls, seen, prev_env_fail, prev_trail>>

Call_normalize_city ==
    /\ Called("normalize_city")
    /\ Returns(normalize_city(probe.arg))
    /\ HandlerIdle

Call_wind_deg_to_16dir_ko ==
    /\ Called("wind_deg_to_16dir_ko")
    /\ Returns(wind_deg_to_16dir_ko(probe.arg))
    /\ HandlerIdle

Call_safe_cast ==
    /\ Called("safe_cast")
    /\ Returns(safe_cast(probe.arg.meta_cast, probe.arg.raw))
    /\ HandlerIdle

Call_extract_items ==
    /\ Called("extract_items")
    /\ Returns(extract_items(probe.arg))
    /\ HandlerIdle

Call_normalize_observations ==
    /\ Called("normalize_observations")
    /\ Returns(normalize_observations(probe.arg))
    /\ HandlerIdle

HelperNext ==
    \/ Call_normalize_city
    \/ Call_wind_deg_to_16dir_ko
    \/ Call_safe_cast
    \/ Call_extract_items
    \/ Call_normalize_observations

HelperSpec == HelperInit /\ [][HelperNext]_vars

\* the helper fn has returned
Returned(fn) == probe.fn = fn /\ "out" \in DOMAIN probe

\* ------------------------------------------------------------------------
\* Properties
\* ------------------------------------------------------------------------

\* the invocation returned after region resolution (success or exhaustion)
ReturnedResolved == pc = "done" /\ "jiyeok" \in DOMAIN result

UsableWindows == {k \in 1..Len(seen) : seen[k].class = "usable"}

\* C1: once the primary window's answer has the success code and a non-empty
\* item list, the invocation returns success for that window and the fallback
\* is never queried.
C1_StopRule ==
    (Len(seen) >= 1 /\ seen[1].class = "usable") =>
        /\ pc = "done"
        /\ result.ok
        /\ result.balpyo.base_time = seen[1].base_time
        /\ Len(calls) = 1

\* C2: at most two upstream calls per invocation, one at a time: a call is sent
\* only when every earlier call has been answered.
C2_AtMostTwoSequentialCalls ==
    /\ Len(calls) <= 2
    /\ Len(seen) <= Len(calls)
    /\ Len(calls) <= Len(seen) + 1
    /\ (Len(calls) = Len(seen) + 1) <=> (pc = "await")

C2_Witness == pc = "done" /\ Len(calls) = 2 /\ Len(seen) = 2 /\ seen[1].class = "http"

\* the windows eligible at clock t, as "HH00" strings: the hour and, unless the
\* hour is 00, the hour before
EligibleAt(t) ==
    IF t.hour = 0 THEN << <<"0", "0", "0", "0">> >>
    ELSE << <<DigitChar(t.hour \div 10), DigitChar(t.hour % 10), "0", "0">>,
            <<DigitChar((t.hour - 1) \div 10), DigitChar((t.hour - 1) % 10), "0", "0">> >>

\* the "YYYYMMDD" string of clock t
TodayAt(t) ==
    <<DigitChar(t.year \div 1000), DigitChar((t.year \div 100) % 10),
      DigitChar((t.year \div 10) % 10), DigitChar(t.year % 10),
      DigitChar(t.month \div 10), DigitChar(t.month % 10),
      DigitChar(t.day \div 10), DigitChar(t.day % 10)>>

\* C3: the candidates are the current hour, truncated, then one hour earlier; the
\* fallback is eligible only on the primary's date, so at hour 00 one window
\* (0000) is eligible and at any other hour H two (H00, then (H-1)00); every
\* request carries the current local date.
C3_WindowEligibility ==
    (now # NoneVal) =>
        /\ Len(candidates) = 2
        /\ candidates[1] = [now EXCEPT !.minute = 0]
        /\ candidates[2].minute = 0
        /\ IF now.hour = 0
           THEN candidates[2].hour = 23 /\ as_base_date(candidates[2]) # TodayAt(now)
           ELSE candidates[2] = [now EXCEPT !.minute = 0, !.hour = now.hour - 1]
        /\ candidate_times(candidates, base_date) = EligibleAt(now)
        /\ Len(calls) <= Len(EligibleAt(now))
        /\ \A k \in 1..Len(calls) :
              /\ calls[k].base_date = TodayAt(now)
              /\ calls[k].base_time = EligibleAt(now)[k]
        /\ (pc = "done" /\ ~result.ok) =>
              /\ result.balpyo.candidate_times = EligibleAt(now)
              /\ Len(calls) = Len(EligibleAt(now))

C3_Witness ==
    /\ pc = "done"
    /\ now # NoneVal
    /\ now.hour = 0
    /\ now.minute = 15
    /\ Len(calls) = 1
    /\ ~result.ok

\* C4: when two windows are eligible and both answers parse with an empty item
\* list, the result is a failure whose trail has exactly two records, primary
\* first and fallback second, and whose error is the empty-data message.
C4_Exhaustion ==
    (pc = "done" /\ Len(seen) = 2 /\ seen[1].class = "empty" /\ seen[2].class = "empty") =>
        /\ ~result.ok
        /\ Len(result.attempts) = 2
        /\ result.attempts[1].base_time = EligibleAt(now)[1]
        /\ result.attempts[2].base_time = EligibleAt(now)[2]
        /\ result.attempts[1].count = 0
        /\ result.attempts[2].count = 0
        /\ result.error.text = "empty data"
        /\ result.error.count = 0
        /\ result.error.resultCode = result.attempts[2].resultCode

C4_Witness ==
    pc = "done" /\ Len(seen) = 2 /\ seen[1].class = "empty" /\ seen[2].class = "empty"

\* C5: for a supported region with the credential present, the result is a
\* success exactly when some eligible window's answer is usable, and the payload
\* (effective window, grouped observations) comes from the items of the earliest
\* usable window alone.
C5_FirstUsableWins ==
    ReturnedResolved =>
        /\ result.ok <=> (UsableWindows # {})
        /\ result.ok =>
              LET k == CHOOSE i \in UsableWindows : \A j \in UsableWindows : i <= j
              IN  /\ result.balpyo.base_time = seen[k].base_time
                  /\ result.silhwang = normalize_observations(seen[k].items)

EnvBlank == environ = NoneVal \/ \A i \in 1..Len(environ.str) : environ.str[i] = " "

\* C7: with the credential absent or blank the invocation returns a failure
\* result, raises nothing and makes no upstream call; with the credential
\* present it passes the check, whatever the previous invocation ended in.
C7_MissingCredential ==
    /\ escaped = ""
    /\ (pc \in {"resolve", "loop", "await"}) => ~EnvBlank
    /\ (pc = "done") =>
          IF EnvBlank THEN result = env_failure /\ Len(calls) = 0
          ELSE result # env_failure

C7_Witness == prev_env_fail /\ pc = "done" /\ result.ok

\* C8: in every result returned after region resolution the trail holds exactly
\* one record per window an upstream call was made for, in the order tried,
\* also for the calls that ended in an HTTP-status or transport failure (stated
\* for the answers that are a transport failure, an HTTP status or a parsed body).
C8_TrailComplete ==
    (/\ ReturnedResolved
     /\ \A k \in 1..Len(seen) :
           seen[k].class \in {"transport", "http", "empty", "non-success", "usable"}) =>
        /\ Len(result.attempts) = Len(calls)
        /\ \A k \in 1..Len(calls) : result.attempts[k].base_time = calls[k].base_time

\* the prefix of the error an answer of the given kind leaves, when not accepted
ErrorTextOf(class) ==
    CASE class = "transport" -> "RequestError"
      [] class = "http" -> "HTTPStatusError"
      [] class \in {"empty", "non-success"} -> "empty data"
      [] OTHER -> "Exception"

\* C9: a failure by exhaustion carries the resolved region and grid, the list of
\* eligible windows (all of them tried), the attempt trail, and as its error the
\* error of the last window tried.
C9_ExhaustionFailure ==
    (ReturnedResolved /\ ~result.ok) =>
        /\ result.jiyeok = normalize_city(city)
        /\ result.jiyeok \in DOMAIN CITY_TO_GRID
        /\ result.gyeokja = CITY_TO_GRID[result.jiyeok]
        /\ result.balpyo.base_date = TodayAt(now)
        /\ result.balpyo.candidate_times = EligibleAt(now)
        /\ result.balpyo.candidate_times = [k \in 1..Len(calls) |-> calls[k].base_time]
        /\ Len(seen) = Len(calls)
        /\ result.attempts = attempts
        /\ Len(result.attempts) =
              Cardinality({k \in 1..Len(seen) :
                             seen[k].class \in {"empty", "non-success", "usable"}})
        /\ result.error.text = ErrorTextOf(seen[Len(seen)].class)
        /\ (seen[Len(seen)].class \in {"empty", "non-success"}) =>
              result.error =
                  empty_data_message(result.attempts[Len(result.attempts)].resultCode,
                                     result.attempts[Len(result.attempts)].count)

C9_Witness ==
    /\ pc = "done"
    /\ Len(seen) = 2
    /\ seen[1].class = "empty"
    /\ seen[2].class = "http"
    /\ ~result.ok
    /\ result.error.text = "HTTPStatusError"

\* C10: every invocation ends in a returned result tagged ok = TRUE or FALSE and
\* no exception leaves get_now_weather, whatever the input, the credential and
\* the upstream answers.
C10_AlwaysReturns ==
    /\ [](escaped = "" /\ pc # "raised" /\ (pc = "done" => result.ok \in BOOLEAN))
    /\ (pc = "need_env") ~> (pc = "done")

C10_Witness ==
    /\ pc = "done"
    /\ Len(seen) = 2
    /\ seen[1].class = "transport"
    /\ seen[2].class = "malformed"
    /\ ~result.ok

\* the code, label and group of a raw item, as the reference table declares them
CodeOf(it) == strip(py_str(dict_get(it, "category", Str(<<>>))))

LabelOf(it) ==
    IF CodeOf(it) \in DOMAIN CATEGORY_META THEN CATEGORY_META[CodeOf(it)].ko
    ELSE IF CodeOf(it) = <<>> THEN <<"U", "N", "K", "N", "O", "W", "N">>
    ELSE CodeOf(it)

GroupOf(it) ==
    IF CodeOf(it) \in DOMAIN CATEGORY_META THEN CATEGORY_META[CodeOf(it)].group
    ELSE "gita"

\* the label suffixed with the raw code in parentheses
SuffixedLabelOf(it) == LabelOf(it) \o <<"(">> \o CodeOf(it) \o <<")">>

\* the number of entries across the five groups
EntryCount(grouped) ==
    Cardinality(DOMAIN grouped["gion"]) + Cardinality(DOMAIN grouped["seupdo"])
        + Cardinality(DOMAIN grouped["gangsu"]) + Cardinality(DOMAIN grouped["baram"])
        + Cardinality(DOMAIN grouped["gita"])

\* C11: normalize_observations drops no item because of a key collision: the
\* five groups together hold as many entries as there are raw items, and an
\* item whose label is already taken in its group is stored under the label
\* suffixed with its raw code in parentheses.
C11_NoItemDropped ==
    Returned("normalize_observations") =>
        /\ EntryCount(probe.out) = Len(probe.arg)
        /\ \A j \in 1..Len(probe.arg) :
              (\E i \in 1..(j - 1) :
                    /\ GroupOf(probe.arg[i]) = GroupOf(probe.arg[j])
                    /\ LabelOf(probe.arg[i]) = LabelOf(probe.arg[j]))
              => /\ SuffixedLabelOf(probe.arg[j]) \in DOMAIN probe.out[GroupOf(probe.arg[j])]
                 /\ probe.out[GroupOf(probe.arg[j])][SuffixedLabelOf(probe.arg[j])].kodeu
                        = CodeOf(probe.arg[j])

\* the distance on the circle between two angles, in hundredths of a degree
CircDist(a, b) ==
    LET d == (a - b) % 36000
    IN  IF d > 18000 THEN 36000 - d ELSE d

\* the degree value deg shifted by turns full turns
Shifted(deg, turns) ==
    IF is_int(deg) THEN PyInt(deg.int + 360 * turns)
    ELSE [float |-> <<deg.float[1] + 36000 * turns, 2>>]

\* C12: for every degree value the 16-point label is that of the 22.5-degree
\* sector nearest to the value modulo 360: 0, 360 and 348.75 give north, 90
\* gives east, and the label of d is the label of d + 360 and of d - 360.
C12_WindMapping ==
    Returned("wind_deg_to_16dir_ko") =>
        /\ \E k \in 0..15 :
              /\ probe.out = Str(WIND_DIR_16_KO[k + 1])
              /\ CircDist(centi_degrees(probe.arg), 2250 * k) <= 1125
        /\ \A k \in 0..15 :
              CircDist(centi_degrees(probe.arg), 2250 * k) < 1125
                  => probe.out = Str(WIND_DIR_16_KO[k + 1])
        /\ probe.arg \in {PyInt(0), PyInt(360)} => probe.out = Str(<<"buk">>)
        /\ probe.arg = [float |-> <<34875, 2>>] => probe.out = Str(<<"buk">>)
        /\ probe.arg = PyInt(90) => probe.out = Str(<<"dong">>)
        /\ wind_deg_to_16dir_ko(Shifted(probe.arg, 1)) = probe.out
        /\ wind_deg_to_16dir_ko(Shifted(probe.arg, -1)) = probe.out

C12_Witness ==
    /\ Returned("wind_deg_to_16dir_ko")
    /\ probe.arg = [float |-> <<34875, 2>>]
    /\ probe.out = Str(<<"buk">>)

\* s without the longest suffix of the fixed list it ends with, if it ends with one
LongestSuffixStripped(s) ==
    LET hits == {k \in 1..Len(SUFFIXES) : endswith(s, SUFFIXES[k])}
    IN  IF hits = {} THEN s
        ELSE LET k == CHOOSE h \in hits :
                          \A j \in hits : Len(SUFFIXES[h]) >= Len(SUFFIXES[j])
             IN  SubSeq(s, 1, Len(s) - Len(SUFFIXES[k]))

\* C13: normalize_city strips only the single longest matching administrative
\* suffix of the fixed list and returns the trimmed remainder: a supported name
\* followed by one known suffix yields the supported key, and an input with no
\* matching suffix is returned unchanged apart from trimming.
C13_SingleLongestSuffix ==
    Returned("normalize_city") =>
        /\ probe.out = strip(LongestSuffixStripped(strip(probe.arg)))
        /\ \A name \in DOMAIN CITY_TO_GRID : \A k \in 1..Len(SUFFIXES) :
              strip(probe.arg) = name \o SUFFIXES[k] => probe.out = name
        /\ (\A k \in 1..Len(SUFFIXES) : ~endswith(strip(probe.arg), SUFFIXES[k]))
              => probe.out = strip(probe.arg)

\* the numeric strings among the probes, with the integer each truncates to
TruncatedValue ==
    (<<"3", ".", "0">> :> 3) @@ (<<"3">> :> 3) @@ (<<"2", "1", ".", "5">> :> 21) @@
    (<<"-", "2", ".", "7">> :> -2) @@ (<<" ", "7", " ">> :> 7) @@ (<<".", "5">> :> 0) @@
    (<<"+", "4">> :> 4)

\* safe_cast was called on a string
CastOfString == Returned("safe_cast") /\ "str" \in DOMAIN probe.arg.raw

\* C14 as stated: a value of integer kind is parsed as a real number and
\* truncated ("3.0" gives 3), and every string that is not numeric, the empty
\* string included, is kept unchanged.
C14_CastKeepsEveryNonNumeric ==
    CastOfString =>
        /\ (probe.arg.meta_cast = "int" /\ probe.arg.raw.str \in DOMAIN TruncatedValue)
              => probe.out = PyInt(TruncatedValue[probe.arg.raw.str])
        /\ probe.arg.raw.str \notin DOMAIN TruncatedValue => probe.out = probe.arg.raw

\* C14, amended: a value of integer kind is parsed as a real number and
\* truncated ("3.0" gives 3); a string that is not numeric and not blank is
\* kept unchanged; the empty string and a string of blanks give None.
C14_CastKeepsNonBlankNonNumeric ==
    CastOfString =>
        /\ (probe.arg.meta_cast = "int" /\ probe.arg.raw.str \in DOMAIN TruncatedValue)
              => probe.out = PyInt(TruncatedValue[probe.arg.raw.str])
        /\ (probe.arg.raw.str \notin DOMAIN TruncatedValue
                /\ \E i \in 1..Len(probe.arg.raw.str) : probe.arg.raw.str[i] # " ")
              => probe.out = probe.arg.raw
        /\ (\A i \in 1..Len(probe.arg.raw.str) : probe.arg.raw.str[i] = " ")
              => probe.out = NoneVal

C14_Witness ==
    /\ Returned("safe_cast")
    /\ probe.arg = [meta_cast |-> "int", raw |-> Str(<<" ">>)]
    /\ probe.out = NoneVal

\* the keys an item may be stored under: its label, or the label suffixed
\* with the code when the label was taken
KeysOf(it) == {LabelOf(it), SuffixedLabelOf(it)}

\* C15: the output of normalize_observations has exactly the five group keys;
\* every item with a known code is placed in the group declared for the code,
\* and every item with an unrecognized code is placed in the other group under
\* its raw code (UNKNOWN when the code is empty), with no unit.
C15_GroupPlacement ==
    Returned("normalize_observations") =>
        /\ DOMAIN probe.out = GROUPS
        /\ \A j \in 1..Len(probe.arg) :
              /\ CodeOf(probe.arg[j]) \notin DOMAIN CATEGORY_META
                    => /\ GroupOf(probe.arg[j]) = "gita"
                       /\ observation_entry(probe.arg[j]).danwi = NoneVal
              /\ \E key \in KeysOf(probe.arg[j]) \cap DOMAIN probe.out[GroupOf(probe.arg[j])] :
                    probe.out[GroupOf(probe.arg[j])][key] = observation_entry(probe.arg[j])

\* a parsed body with every nested field in place and x as its item field
FullBody(h, x) == [response |-> [header |-> h, body |-> [items |-> [item |-> x]]]]

\* C18: for every parsed body extract_items returns a one-element list when the
\* item field is a single item, the list itself when it is a list, and the
\* empty list when the field is absent or of another shape or when a nested
\* field is missing or of an unexpected shape; it always returns a list.
C18_ExtractItems ==
    Returned("extract_items") =>
        /\ \A h \in Headers : \A x \in ItemFields :
              probe.arg = FullBody(h, x) =>
                  probe.out = IF is_list(x) THEN x.list
                              ELSE IF is_dict(x) THEN <<x>>
                              ELSE <<>>
        /\ (\A h \in Headers : \A x \in ItemFields : probe.arg # FullBody(h, x))
              => probe.out = <<>>
        /\ DOMAIN probe.out = 1..Len(probe.out)

C18_Witness ==
    /\ Returned("extract_items")
    /\ \E h \in Headers : probe.arg = FullBody(h, Item(T1H, <<"2", "1", ".", "5">>))
    /\ probe.out = <<Item(T1H, <<"2", "1", ".", "5">>)>>

\* the answer to window k was parsed: neither the fetch nor the header lines raised
Parsed(k) == seen[k].got.exc = ""

\* the parsed answer to window k has the success code and a non-empty item list
SuccessWithItems(k) ==
    seen[k].got.resultCode = SUCCESS_CODE /\ seen[k].got.count > 0

\* the invocation returned success for window k
AcceptedWindow(k) ==
    /\ pc = "done"
    /\ result.ok
    /\ k = Len(seen)
    /\ result.balpyo.base_time = seen[k].base_time

\* C16: a window's parsed response is accepted (success is returned for that
\* window) exactly when it has the success code and a non-empty item list; a
\* parsed response that is not of that kind is recorded in the trail with its
\* result code and item count, sets the last error to the empty-data message,
\* and the next eligible window is tried before the invocation ends.
C16_ResponseClassification ==
    \A k \in 1..Len(seen) :
        Parsed(k) =>
            /\ AcceptedWindow(k) <=> SuccessWithItems(k)
            /\ ~SuccessWithItems(k) =>
                  /\ \E j \in 1..Len(attempts) :
                        /\ attempts[j].base_time = seen[k].base_time
                        /\ attempts[j].resultCode = seen[k].got.resultCode
                        /\ attempts[j].count = seen[k].got.count
                  /\ k = Len(seen) =>
                        /\ last_error = empty_data_message(seen[k].got.resultCode,
                                                           seen[k].got.count)
                        /\ pc \in {"loop", "await", "done"}
                        /\ pc = "done" =>
                              /\ ~result.ok
                              /\ result.error = last_error
                              /\ Len(seen) = Len(EligibleAt(now))

\* the call for window k ended in an HTTP-status error, a transport error or a timeout
CallFailed(k) == seen[k].class \in {"transport", "http"}

\* C17: when the call for a window ends in an HTTP-status error, a transport
\* error or a timeout, the failure becomes the last error and the next window
\* is queried if one is eligible, otherwise the invocation ends in failure; no
\* window is queried more than once within an invocation.
C17_TransportProgression ==
    /\ \A k \in 1..Len(seen) :
          CallFailed(k) =>
              /\ seen[k].got.exc \in {"HTTPStatusError", "ConnectError", "ReadTimeout"}
              /\ k < Len(EligibleAt(now)) =>
                    \/ pc = "loop" /\ Len(calls) = k /\ idx <= Len(candidates)
                    \/ /\ Len(calls) > k
                       /\ calls[k + 1].base_time = EligibleAt(now)[k + 1]
              /\ k = Len(seen) =>
                    /\ last_error.exc = seen[k].got.exc
                    /\ last_error.text =
                          IF seen[k].class = "http" THEN "HTTPStatusError" ELSE "RequestError"
                    /\ pc \in {"loop", "await", "done"}
                    /\ pc = "done" =>
                          /\ ~result.ok
                          /\ result.error = last_error
                          /\ k = Len(EligibleAt(now))
    /\ \A i \in 1..Len(calls) : \A j \in 1..Len(calls) :
          i # j => calls[i].base_time # calls[j].base_time

C17_Witness ==
    /\ pc = "done"
    /\ Len(seen) = 2
    /\ seen[1].got.exc = "ReadTimeout"
    /\ seen[2].class = "usable"
    /\ result.ok

\* C20: in every success result the last record of the attempt trail is for the
\* effective window of the payload, with the success code and an item count of
\* at least one, and every earlier record is for a window that was tried
\* before it and not accepted.
C20_SuccessTrailShape ==
    (pc = "done" /\ result.ok) =>
        LET trail == result.attempts
            n == Len(result.attempts)
        IN  /\ n >= 1
            /\ trail[n].base_date = result.balpyo.base_date
            /\ trail[n].base_time = result.balpyo.base_time
            /\ trail[n].resultCode = SUCCESS_CODE
            /\ trail[n].count >= 1
            /\ trail[n].base_time = seen[Len(seen)].base_time
            /\ \A j \in 1..(n - 1) :
                  /\ trail[j].base_time # result.balpyo.base_time
                  /\ \E k \in 1..(Len(seen) - 1) :
                        /\ seen[k].base_time = trail[j].base_time
                        /\ seen[k].got.resultCode = trail[j].resultCode
                        /\ seen[k].got.count = trail[j].count

C20_Witness ==
    /\ pc = "done"
    /\ result.ok
    /\ Len(result.attempts) = 2
    /\ result.attempts[1].resultCode = <<"0", "3">>

\* the result of an invocation as a function of what the invocation itself is
\* given: the region name, the credential, the clock and the answers to its
\* calls, from window k on with the trail and the error gathered so far
RECURSIVE OwnOutcome(_, _, _)
OwnOutcome(k, trail, err) ==
    IF k > Len(EligibleAt(now))
    THEN [ok |-> FALSE, error |-> IF err = NoneVal THEN UNKNOWN_ERROR ELSE err,
          jiyeok |-> normalize_city(city), gyeokja |-> CITY_TO_GRID[normalize_city(city)],
          balpyo |-> [base_date |-> TodayAt(now), candidate_times |-> EligibleAt(now)],
          attempts |-> trail]
    ELSE LET a == seen[k].got
             record == [base_date |-> TodayAt(now), base_time |-> EligibleAt(now)[k],
                        resultCode |-> a.resultCode, resultMsg |-> a.resultMsg,
                        count |-> a.count]
         IN  IF a.exc # ""
             THEN OwnOutcome(k + 1, trail,
                             [text |-> IF a.exc = "HTTPStatusError" THEN "HTTPStatusError"
                                       ELSE IF a.exc \in {"ConnectError", "ReadTimeout"}
                                       THEN "RequestError" ELSE "Exception",
                              exc |-> a.exc])
             ELSE IF a.resultCode # SUCCESS_CODE \/ a.count = 0
             THEN OwnOutcome(k + 1, Append(trail, record),
                             empty_data_message(a.resultCode, a.count))
             ELSE IF \E i \in 1..Len(seen[k].items) : ~is_dict(seen[k].items[i])
             THEN OwnOutcome(k + 1, Append(trail, record),
                             [text |-> "Exception", exc |-> "AttributeError"])
             ELSE [ok |-> TRUE, jiyeok |-> normalize_city(city),
                   gyeokja |-> CITY_TO_GRID[normalize_city(city)],
                   balpyo |-> [base_date |-> TodayAt(now), base_time |-> EligibleAt(now)[k]],
                   silhwang |-> normalize_observations(seen[k].items),
                   attempts |-> Append(trail, record)]

OwnResult ==
    IF EnvBlank THEN env_failure
    ELSE IF normalize_city(city) \notin DOMAIN CITY_TO_GRID
    THEN unsupported_failure(city, normalize_city(city))
    ELSE OwnOutcome(1, <<>>, NoneVal)

\* C19: every invocation starts its loop with an empty attempt trail and no
\* last error, and its result is a function of its own region name, the
\* credential, the clock and the answers it received: nothing an earlier
\* invocation recorded appears in it or changes it.
C19_InvocationIndependence ==
    /\ (pc = "loop" /\ Len(calls) = 0 /\ idx = 1) => (attempts = <<>> /\ last_error = NoneVal)
    /\ pc \in {"loop", "await"} =>
          /\ Len(attempts) <= Len(seen)
          /\ \A j \in 1..Len(attempts) : attempts[j].base_date = TodayAt(now)
    /\ pc = "done" => result = OwnResult

C19_Witness ==
    /\ pc = "done"
    /\ prev_trail = 2
    /\ result.ok
    /\ Len(result.attempts) = 1

====
